---- MODULE Spec2Model ----
(***************************************************************************)
(* A model of pentops/flatfile, package binfile: the fixed-width record    *)
(* decoder ParseMessage, its Reader and the numeric encoding transformers. *)
(*                                                                         *)
(* Bytes are the integers 0..255 and a string or []byte is a sequence of   *)
(* bytes.  A Go (value, error) result is a record [kind, val, err]; a      *)
(* runtime panic is the result kind "panic".  An error is the sequence of  *)
(* its layers, outermost first: fmt.Errorf with %w puts a layer in front   *)
(* of the wrapped error's layers, and errors.Unwrap is Tail.               *)
(***************************************************************************)
EXTENDS Integers, Sequences, FiniteSets, TLC

VARIABLES
    fields,     \* desc.Fields(): the schema's field descriptors, declared order
    oneBased,   \* the message option one_based
    data,       \* the record buffer
    msg,        \* the output record: field index -> value, or Unset
    pre,        \* msg as it was before the call (history)
    dec,        \* per field, the result ReadField returned in this call (history)
    idx,        \* ParseMessage's loop variable i, 1-based
    pc,         \* "pending" | "done" | "panicked" (ParseMessage); "call" | "returned" (direct calls)
    err,        \* ParseMessage's returned error, NoErr for nil
    arg,        \* the argument of a direct call of an exported function
    ret         \* the result of that direct call

vars == <<fields, oneBased, data, msg, pre, dec, idx, pc, err, arg, ret>>

-----------------------------------------------------------------------------
(* Bounds *)

MaxFields == 3      \* fields in a schema of ParseMessage
MaxWin == 3         \* length of the enumerated byte windows
MaxOff == 4         \* largest declared offset of getBytes' layouts
MaxRec == 4         \* longest record buffer of getBytes' inputs

-----------------------------------------------------------------------------
(* Bytes and strings *)

chSpace == 32
chZero == 48
chMinus == 45

Last(s) == s[Len(s)]

\* s[lo:hi] with Go's 0-based half-open bounds, for 0 <= lo <= hi <= Len(s)
Slice(s, lo, hi) == SubSeq(s, lo + 1, hi)

Repeat(c, n) == [k \in 1..n |-> c]

\* all byte sequences over alphabet of length lo..hi
SeqsOver(alphabet, lo, hi) == UNION {[1..n -> alphabet] : n \in lo..hi}

\* the number of leading bytes of s that are in cutset
LeadIn(s, cutset) ==
    IF \E k \in 1..Len(s) : s[k] \notin cutset
    THEN (CHOOSE k \in 1..Len(s) : s[k] \notin cutset /\ \A j \in 1..(k-1) : s[j] \in cutset) - 1
    ELSE Len(s)

\* the number of trailing bytes of s that are in cutset
TrailIn(s, cutset) ==
    IF \E k \in 1..Len(s) : s[k] \notin cutset
    THEN Len(s) - (CHOOSE k \in 1..Len(s) : s[k] \notin cutset /\ \A j \in (k+1)..Len(s) : s[j] \in cutset)
    ELSE Len(s)

TrimLeft(s, cutset) == SubSeq(s, LeadIn(s, cutset) + 1, Len(s))
TrimRight(s, cutset) == SubSeq(s, 1, Len(s) - TrailIn(s, cutset))
Trim(s, cutset) == TrimRight(TrimLeft(s, cutset), cutset)

\* unicode.IsSpace on the ASCII range: \t \n \v \f \r and space
SpaceBytes == {9, 10, 11, 12, 13, 32}
TrimSpace(s) == Trim(s, SpaceBytes)

\* the set of bytes of a cutset string
BytesOf(s) == {s[k] : k \in 1..Len(s)}

-----------------------------------------------------------------------------
(* Errors and results *)

NoErr == <<>>

\* errors.New(m) and fmt.Errorf(m, of) without %w: an error with one layer
NewError(m, of) == <<[msg |-> m, of |-> of]>>

\* fmt.Errorf(m + ": %w", of, inner)
Wrap(m, of, inner) == <<[msg |-> m, of |-> of]>> \o inner

\* errors.Is(e, target): some error of e's Unwrap chain equals target
ErrorsIs(e, target) ==
    \E k \in 1..Len(e) : SubSeq(e, k, Len(e)) = target

ErrMissingBool == NewError("missing bool value", <<>>)

NoVal == [t |-> "nil", v |-> <<>>]

Ok(v) == [kind |-> "ok", val |-> v, err |-> NoErr]
Fail(e) == [kind |-> "err", val |-> <<>>, err |-> e]
Panic == [kind |-> "panic", val |-> <<>>, err |-> NoErr]

\* the three outcomes of a (*protoreflect.Value, error) result
Present(v) == [kind |-> "Present", val |-> v, err |-> NoErr]
Absent == [kind |-> "Absent", val |-> NoVal, err |-> NoErr]
Error(e) == [kind |-> "Error", val |-> NoVal, err |-> e]
Panicked == [kind |-> "Panic", val |-> NoVal, err |-> NoErr]

\* "if err != nil { return nil, err }" after a call that returned r
Propagate(r) == IF r.kind = "panic" THEN Panicked ELSE Error(r.err)

-----------------------------------------------------------------------------
(* protoreflect.Value *)

ValueOfBool(b) == [t |-> "bool", v |-> b]
ValueOfString(s) == [t |-> "string", v |-> s]
ValueOfStringValue(s) == [t |-> "StringValue", v |-> s]
ValueOfEnum(n) == [t |-> "enum", v |-> n]
ValueOfInt(typ, n) == [t |-> typ, v |-> n]

\* a field of the output record that is not populated
Unset == [t |-> "unset", v |-> <<>>]

-----------------------------------------------------------------------------
(* flatfile_pb.Field, the field option, and its parts *)

NoFixedWidth == [present |-> FALSE, offset |-> 0, length |-> 0]
FixedWidth(o, l) == [present |-> TRUE, offset |-> o, length |-> l]

NoBool == [present |-> FALSE, trueValues |-> <<>>, falseValues |-> <<>>,
           treatMissingAs |-> "MISSING_IS_UNSPECIFIED"]
BoolField(tv, fv, m) == [present |-> TRUE, trueValues |-> tv, falseValues |-> fv,
                         treatMissingAs |-> m]

NoNumber == [present |-> FALSE, encoding |-> "ENCODING_UNSPECIFIED"]
NumberField(e) == [present |-> TRUE, encoding |-> e]

NoString == [present |-> FALSE, trim |-> "TRIM_UNSPECIFIED", trimChars |-> <<>>]
StringField(t, c) == [present |-> TRUE, trim |-> t, trimChars |-> c]

\* a field without the (flatfile.v1.field) option
NoField == [present |-> FALSE, fixedWidth |-> NoFixedWidth, bool |-> NoBool,
            number |-> NoNumber, string |-> NoString]
Field(fw, b, n, s) == [present |-> TRUE, fixedWidth |-> fw, bool |-> b,
                       number |-> n, string |-> s]

\* the Reader
NewReader(d, ob) == [Record |-> d, OneBased |-> ob]

-----------------------------------------------------------------------------
(* Byte window extraction *)

\* a slice expression s[lo:hi] panics unless 0 <= lo <= hi <= cap(s)
getBytesMutNoNormalize(r, tc) ==
    LET offset == tc.fixedWidth.offset
        length == tc.fixedWidth.length
    IN  IF offset + length > Len(r.Record) THEN Fail(NewError("short record", <<>>))
        ELSE IF offset < 0 \/ length < 0 THEN Panic
        ELSE Ok(Slice(r.Record, offset, offset + length))

getBytes(r, tc) ==
    LET offset == IF r.OneBased THEN tc.fixedWidth.offset - 1 ELSE tc.fixedWidth.offset
        length == tc.fixedWidth.length
    IN  IF offset + length > Len(r.Record) THEN Fail(NewError("short record", <<>>))
        ELSE IF offset < 0 \/ length < 0 THEN Panic
        ELSE Ok(Slice(r.Record, offset, offset + length))

getString(r, tc) == getBytes(r, tc)

-----------------------------------------------------------------------------
(* Numeric encoding transformers *)

\* `{ABCDEFGHI}JKLMNOPQR`
overpunchVals == <<123, 65, 66, 67, 68, 69, 70, 71, 72, 73,
                   125, 74, 75, 76, 77, 78, 79, 80, 81, 82>>

\* strings.IndexByte: the 0-based index of the first c in s, or -1
IndexByte(s, c) ==
    IF \E k \in 1..Len(s) : s[k] = c
    THEN (CHOOSE k \in 1..Len(s) : s[k] = c /\ \A j \in 1..(k-1) : s[j] # c) - 1
    ELSE -1

DecodeOverpunchMutSign(in) ==
    IF Len(in) = 0 THEN Panic
    ELSE LET last == Last(in)
             overpunchIndex == IndexByte(overpunchVals, last)
             out == [in EXCEPT ![Len(in)] = (overpunchIndex % 10) + chZero]
         IN  IF overpunchIndex < 0
             THEN Fail(NewError("invalid overpunch byte", <<last>>))
             ELSE IF overpunchIndex > 10 THEN Ok(<<chMinus>> \o out)
             ELSE Ok(out)

\* in[len(in)-1] of an empty window is an index out of range
DecodeOverpunch(in) ==
    IF Len(in) = 0 THEN Panic
    ELSE LET last == Last(in)
             overpunchIndex == IndexByte(overpunchVals, last)
             out == [in EXCEPT ![Len(in)] = (overpunchIndex % 10) + chZero]
         IN  IF overpunchIndex < 0
             THEN Fail(NewError("invalid overpunch byte", <<last>>))
             ELSE IF overpunchIndex > 9 THEN Ok(<<chMinus>> \o out)
             ELSE Ok(out)

\* the nibbles the first loop of UnpackPacked appends for the byte in[i] (1-based i)
PackedNibbles(in, i) ==
    LET a == in[i] \div 16
        b == in[i] % 16
    IN  IF i = Len(in) THEN (IF b < 10 THEN <<a, b>> ELSE <<a>>)
        ELSE IF i = 1 /\ b >= 10 THEN <<a>>
        ELSE <<a, b>>

\* out after the first loop has run over in[1..n]
RECURSIVE PackedOut(_, _)
PackedOut(in, n) ==
    IF n = 0 THEN <<>> ELSE PackedOut(in, n - 1) \o PackedNibbles(in, n)

\* negative after the first loop: the last byte's low nibble is 0xD or 0xB
PackedNegative(in) == Len(in) > 0 /\ (Last(in) % 16) \in {13, 11}

\* the second loop from out[k] on: zero nibbles are skipped until hadAny
RECURSIVE PackedStr(_, _, _)
PackedStr(out, k, hadAny) ==
    IF k > Len(out) THEN <<>>
    ELSE IF out[k] = 0 /\ ~hadAny THEN PackedStr(out, k + 1, hadAny)
    ELSE <<out[k] + chZero>> \o PackedStr(out, k + 1, TRUE)

UnpackPacked(in) ==
    Ok((IF PackedNegative(in) THEN <<chMinus>> ELSE <<>>)
       \o PackedStr(PackedOut(in, Len(in)), 1, FALSE))

getNumberString(r, tc) ==
    LET strVal == getString(r, tc)
    IN  IF strVal.kind # "ok" THEN strVal
        ELSE IF ~tc.number.present THEN Ok(TrimSpace(strVal.val))
        ELSE CASE tc.number.encoding = "ENCODING_UNSPECIFIED" -> Ok(TrimSpace(strVal.val))
               [] tc.number.encoding = "ENCODING_PACKED_DECIMAL" ->
                    LET u == UnpackPacked(strVal.val)
                    IN  IF u.kind = "err"
                        THEN Fail(Wrap("error unpacking packed decimal", <<>>, u.err))
                        ELSE u
               [] tc.number.encoding = "ENCODING_OVERPUNCH" ->
                    LET u == DecodeOverpunch(strVal.val)
                    IN  IF u.kind = "err"
                        THEN Fail(Wrap("error decoding overpunch decimal", <<>>, u.err))
                        ELSE u
               [] OTHER -> Fail(NewError("unknown number encoding", <<>>))

-----------------------------------------------------------------------------
(* Integers.  An integer value is [neg, mag] with mag its decimal digits,    *)
(* most significant first and without leading zeros (<<0>> for zero), so    *)
(* that 64-bit values are exact.                                            *)

DigitBytes == 48..57

\* digits without leading zeros
Canonical(ds) == LET t == TrimLeft(ds, {0}) IN IF t = <<>> THEN <<0>> ELSE t

\* a < b, a and b canonical
RECURSIVE LexLess(_, _)
LexLess(a, b) ==
    IF a = <<>> THEN FALSE
    ELSE IF Head(a) # Head(b) THEN Head(a) < Head(b)
    ELSE LexLess(Tail(a), Tail(b))
MagLess(a, b) == Len(a) < Len(b) \/ (Len(a) = Len(b) /\ LexLess(a, b))

RECURSIVE DigitsOf(_)
DigitsOf(n) == IF n < 10 THEN <<n>> ELSE DigitsOf(n \div 10) \o <<n % 10>>

\* the integer n >= 0, as uint32(n), int64(n), ...
NumOfNat(n) == [neg |-> FALSE, mag |-> DigitsOf(n)]

\* 1<<bitSize - 1
MaxUint(bitSize) ==
    IF bitSize = 32 THEN <<4,2,9,4,9,6,7,2,9,5>>
    ELSE <<1,8,4,4,6,7,4,4,0,7,3,7,0,9,5,5,1,6,1,5>>

\* 1 << (bitSize-1)
SignedCutoff(bitSize) ==
    IF bitSize = 32 THEN <<2,1,4,7,4,8,3,6,4,8>>
    ELSE <<9,2,2,3,3,7,2,0,3,6,8,5,4,7,7,5,8,0,8>>

NumError(fn, s, e) == <<[msg |-> fn, of |-> s], [msg |-> e, of |-> <<>>]>>

\* the value of the decimal digit characters s[1..n]
DigitVals(s, n) == Canonical([k \in 1..n |-> s[k] - chZero])

\* strconv.ParseUint(s, 10, bitSize): the characters are read left to right; a
\* character that is no digit is a syntax error, a prefix whose value exceeds
\* the maximum is a range error, and the first of the two is returned
ParseUint(s, bitSize) ==
    LET bad(k) == s[k] \notin DigitBytes
        over(k) == (\A j \in 1..k : ~bad(j)) /\ MagLess(MaxUint(bitSize), DigitVals(s, k))
    IN  IF s = <<>> THEN Fail(NumError("strconv.ParseUint", s, "invalid syntax"))
        ELSE IF \E k \in 1..Len(s) : bad(k) /\ \A j \in 1..(k-1) : ~over(j)
        THEN Fail(NumError("strconv.ParseUint", s, "invalid syntax"))
        ELSE IF \E k \in 1..Len(s) : over(k)
        THEN Fail(NumError("strconv.ParseUint", s, "value out of range"))
        ELSE Ok([neg |-> FALSE, mag |-> DigitVals(s, Len(s))])

\* strconv.ParseInt(s, 10, bitSize)
ParseInt(s, bitSize) ==
    LET neg == s # <<>> /\ Head(s) = chMinus
        rest == IF s # <<>> /\ Head(s) \in {43, chMinus} THEN Tail(s) ELSE s
        un == ParseUint(rest, bitSize)
        syntax == un.kind = "err" /\ Last(un.err).msg = "invalid syntax"
        cutoff == SignedCutoff(bitSize)
    IN  IF s = <<>> \/ syntax THEN Fail(NumError("strconv.ParseInt", s, "invalid syntax"))
        ELSE IF un.kind = "err" THEN Fail(NumError("strconv.ParseInt", s, "value out of range"))
        ELSE IF ~neg /\ ~MagLess(un.val.mag, cutoff)
        THEN Fail(NumError("strconv.ParseInt", s, "value out of range"))
        ELSE IF neg /\ MagLess(cutoff, un.val.mag)
        THEN Fail(NumError("strconv.ParseInt", s, "value out of range"))
        ELSE Ok([neg |-> neg /\ un.val.mag # <<0>>, mag |-> un.val.mag])

\* the (value, isSet, error) results of the two string-number readers
NumSet(v) == [kind |-> "ok", val |-> v, isSet |-> TRUE, err |-> NoErr]
NumUnset == [kind |-> "ok", val |-> NumOfNat(0), isSet |-> FALSE, err |-> NoErr]
NumFail(k, e) == [kind |-> k, val |-> NumOfNat(0), isSet |-> FALSE, err |-> e]

unsignedStringNumberMutNoZeroStrip(r, tc, size) ==
    LET numString == getNumberString(r, tc)
        stripped == TrimLeft(numString.val, {chSpace})
        val == ParseUint(stripped, size)
    IN  IF numString.kind # "ok" THEN NumFail(numString.kind, numString.err)
        ELSE IF stripped = <<>> THEN NumUnset
        ELSE IF val.kind = "err" THEN NumFail("err", Wrap("parsing as uint", stripped, val.err))
        ELSE NumSet(val.val)

unsignedStringNumber(r, tc, size) ==
    LET numString == getNumberString(r, tc)
        stripped == TrimLeft(numString.val, {chSpace, chZero})
        val == ParseUint(stripped, size)
    IN  IF numString.kind # "ok" THEN NumFail(numString.kind, numString.err)
        ELSE IF stripped = <<>> THEN NumUnset
        ELSE IF val.kind = "err" THEN NumFail("err", Wrap("parsing as uint", stripped, val.err))
        ELSE NumSet(val.val)

signedStringNumber(r, tc, size) ==
    LET numString == getNumberString(r, tc)
        stripped == TrimLeft(numString.val, {chSpace, chZero})
        val == ParseInt(stripped, size)
    IN  IF numString.kind # "ok" THEN NumFail(numString.kind, numString.err)
        ELSE IF stripped = <<>> THEN NumUnset
        ELSE IF val.kind = "err" THEN NumFail("err", Wrap("parsing as int", stripped, val.err))
        ELSE NumSet(val.val)

\* copy(dst, src): the first min(len(dst), len(src)) bytes of dst are overwritten
Copy(dst, src) == [k \in 1..Len(dst) |-> IF k <= Len(src) THEN src[k] ELSE dst[k]]

leftPaddedBytes(r, tc, typeLength) ==
    LET readLength == tc.fixedWidth.length
        byteVal == getBytes(r, tc)
        newVal == Repeat(0, typeLength)
        from == readLength - Len(byteVal.val)
    IN  IF typeLength < readLength
        THEN Fail(NewError("type length less than read length", <<typeLength, readLength>>))
        ELSE IF byteVal.kind # "ok" THEN byteVal
        ELSE IF typeLength = readLength THEN byteVal
        ELSE Ok(SubSeq(newVal, 1, from) \o Copy(SubSeq(newVal, from + 1, typeLength), byteVal.val))

numberFormat(tc) ==
    IF tc.number.present /\ tc.number.encoding # "ENCODING_UNSPECIFIED"
    THEN tc.number.encoding
    ELSE "ENCODING_UNSPECIFIED"

\* the binary branch shared by the four integer readers: val := byteVal[0]
readBinary(r, tc, typ, typeLength) ==
    LET byteVal == leftPaddedBytes(r, tc, typeLength)
    IN  IF byteVal.kind # "ok" THEN Propagate(byteVal)
        ELSE IF Len(byteVal.val) = 0 THEN Panicked
        ELSE Present(ValueOfInt(typ, NumOfNat(byteVal.val[1])))

\* the string branch shared by the four integer readers
readStringNumber(n, typ) ==
    IF n.kind # "ok" THEN (IF n.kind = "panic" THEN Panicked ELSE Error(n.err))
    ELSE IF ~n.isSet THEN Absent
    ELSE Present(ValueOfInt(typ, n.val))

readUint32(r, tc) ==
    IF numberFormat(tc) = "ENCODING_BINARY" THEN readBinary(r, tc, "uint32", 4)
    ELSE readStringNumber(unsignedStringNumber(r, tc, 32), "uint32")

readUint64(r, tc) ==
    IF numberFormat(tc) = "ENCODING_BINARY" THEN readBinary(r, tc, "uint64", 8)
    ELSE readStringNumber(unsignedStringNumber(r, tc, 64), "uint64")

readInt32(r, tc) ==
    IF numberFormat(tc) = "ENCODING_BINARY" THEN readBinary(r, tc, "int32", 4)
    ELSE readStringNumber(signedStringNumber(r, tc, 32), "int32")

readInt64(r, tc) ==
    IF numberFormat(tc) = "ENCODING_BINARY" THEN readBinary(r, tc, "int64", 8)
    ELSE readStringNumber(signedStringNumber(r, tc, 64), "int64")

-----------------------------------------------------------------------------
(* Scalar decoders *)

trimString(str, tc) ==
    LET trimChars == IF tc.string.trimChars = <<>> THEN {chSpace}
                     ELSE BytesOf(tc.string.trimChars)
    IN  IF ~tc.string.present THEN str
        ELSE CASE tc.string.trim = "TRIM_LEFT" -> TrimLeft(str, trimChars)
               [] tc.string.trim = "TRIM_RIGHT" -> TrimRight(str, trimChars)
               [] tc.string.trim = "TRIM_BOTH" -> Trim(str, trimChars)
               [] OTHER -> str

readString(r, tc) ==
    LET strVal == getString(r, tc)
    IN  IF strVal.kind # "ok" THEN Propagate(strVal)
        ELSE Present(ValueOfString(trimString(strVal.val, tc)))

readStringValue(r, tc) ==
    LET strVal == getString(r, tc)
    IN  IF strVal.kind # "ok" THEN Propagate(strVal)
        ELSE IF trimString(strVal.val, tc) = <<>> THEN Absent
        ELSE Present(ValueOfStringValue(trimString(strVal.val, tc)))

\* slices.Contains
Contains(list, x) == \E k \in 1..Len(list) : list[k] = x

\* the BoolField used when the field has no bool config: T t Y y 1 / F f N n 0
DefaultBoolField ==
    BoolField(<< <<84>>, <<116>>, <<89>>, <<121>>, <<49>> >>,
              << <<70>>, <<102>>, <<78>>, <<110>>, <<48>> >>,
              "MISSING_IS_ERROR")

readBoolValueMutFalseFirst(r, tc) ==
    LET strVal == getString(r, tc)
        boolField == IF tc.bool.present THEN tc.bool ELSE DefaultBoolField
    IN  IF strVal.kind # "ok" THEN Propagate(strVal)
        ELSE IF Contains(boolField.falseValues, strVal.val) THEN Present(ValueOfBool(FALSE))
        ELSE IF Contains(boolField.trueValues, strVal.val) THEN Present(ValueOfBool(TRUE))
        ELSE CASE boolField.treatMissingAs \in {"MISSING_IS_UNSPECIFIED", "MISSING_IS_FALSE"} ->
                    Present(ValueOfBool(FALSE))
               [] boolField.treatMissingAs = "MISSING_IS_TRUE" -> Present(ValueOfBool(TRUE))
               [] boolField.treatMissingAs = "MISSING_IS_ERROR" -> Error(ErrMissingBool)
               [] OTHER -> Error(NewError("unknown missing value def for bool", <<>>))

readBoolValue(r, tc) ==
    LET strVal == getString(r, tc)
        boolField == IF tc.bool.present THEN tc.bool ELSE DefaultBoolField
    IN  IF strVal.kind # "ok" THEN Propagate(strVal)
        ELSE IF Contains(boolField.trueValues, strVal.val) THEN Present(ValueOfBool(TRUE))
        ELSE IF Contains(boolField.falseValues, strVal.val) THEN Present(ValueOfBool(FALSE))
        ELSE CASE boolField.treatMissingAs \in {"MISSING_IS_UNSPECIFIED", "MISSING_IS_FALSE"} ->
                    Present(ValueOfBool(FALSE))
               [] boolField.treatMissingAs = "MISSING_IS_TRUE" -> Present(ValueOfBool(TRUE))
               [] boolField.treatMissingAs = "MISSING_IS_ERROR" -> Error(ErrMissingBool)
               [] OTHER -> Error(NewError("unknown missing value def for bool", <<>>))

\* an enum value descriptor: its number and its (flatfile.v1.enum) option
EnumValue(n, key) == [number |-> n, hasExt |-> TRUE, key |-> key]
EnumValueNoExt(n) == [number |-> n, hasExt |-> FALSE, key |-> <<>>]

\* the loop of readEnum: the values whose trimmed key equals the window text
EnumMatches(values, stringVal) ==
    {k \in 1..Len(values) : values[k].hasExt /\ TrimSpace(values[k].key) = stringVal}

readEnum(r, tc, values) ==
    LET stringVal == getString(r, tc)
        hits == EnumMatches(values, stringVal.val)
        first == CHOOSE k \in hits : \A j \in hits : k <= j
    IN  IF stringVal.kind # "ok" THEN Propagate(stringVal)
        ELSE IF hits # {} THEN Present(ValueOfEnum(values[first].number))
        ELSE IF TrimSpace(stringVal.val) = <<>> THEN Absent
        ELSE Error(NewError("invalid enum value", stringVal.val))

-----------------------------------------------------------------------------
(* Field dispatcher *)

\* a protoreflect.FieldDescriptor: FullName, Kind, Message().FullName(),
\* Enum().Values() and the field option.  name is the field's number.
FieldDesc(name, kind, message, values, tc) ==
    [name |-> name, kind |-> kind, message |-> message, values |-> values, tc |-> tc]

\* Schemas of the model have no Decimal and no Date field: readDecimal and
\* readDate rest on shopspring/decimal and on time.Parse.
ReadField(r, fieldDesc) ==
    LET tc == fieldDesc.tc
    IN  IF ~tc.present THEN Absent
        ELSE IF ~tc.fixedWidth.present THEN Absent
        ELSE CASE fieldDesc.kind = "MessageKind" ->
                    (CASE fieldDesc.message = "google.protobuf.StringValue" -> readStringValue(r, tc)
                       [] fieldDesc.message = "google.protobuf.BoolValue" -> readBoolValue(r, tc)
                       [] OTHER -> Error(NewError("unknown struct type", fieldDesc.message)))
               [] fieldDesc.kind = "StringKind" -> readString(r, tc)
               [] fieldDesc.kind = "BoolKind" -> readBoolValue(r, tc)
               [] fieldDesc.kind = "EnumKind" -> readEnum(r, tc, fieldDesc.values)
               [] fieldDesc.kind = "Uint32Kind" -> readUint32(r, tc)
               [] fieldDesc.kind = "Uint64Kind" -> readUint64(r, tc)
               [] fieldDesc.kind = "Int32Kind" -> readInt32(r, tc)
               [] fieldDesc.kind = "Int64Kind" -> readInt64(r, tc)
               [] OTHER -> Error(NewError("unknown type/kind", fieldDesc.kind))

-----------------------------------------------------------------------------
(* Record orchestrator: ParseMessage, one action per turn of its loop *)

NotRead == [kind |-> "NotRead", val |-> NoVal, err |-> NoErr]

\* fmt.Errorf("error reading field %s: %w", fieldDesc.FullName(), err)
FieldError(fieldDesc, e) == Wrap("error reading field", fieldDesc.name, e)

\* rr.ReadField(fieldDesc) of the current turn
Turn == ReadField(NewReader(data, oneBased), fields[idx])

InLoop == pc = "pending" /\ idx <= Len(fields)

\* val != nil: refl.Set(fieldDesc, *val)
ParseFieldSet ==
    /\ InLoop
    /\ Turn.kind = "Present"
    /\ msg' = [msg EXCEPT ![idx] = Turn.val]
    /\ dec' = [dec EXCEPT ![idx] = Turn]
    /\ idx' = idx + 1
    /\ UNCHANGED <<fields, oneBased, data, pre, pc, err, arg, ret>>

ParseFieldSkipMutClear ==
    /\ InLoop
    /\ Turn.kind = "Absent"
    /\ msg' = [msg EXCEPT ![idx] = Unset]
    /\ dec' = [dec EXCEPT ![idx] = Turn]
    /\ idx' = idx + 1
    /\ UNCHANGED <<fields, oneBased, data, pre, pc, err, arg, ret>>

\* val == nil: continue
ParseFieldSkip ==
    /\ InLoop
    /\ Turn.kind = "Absent"
    /\ dec' = [dec EXCEPT ![idx] = Turn]
    /\ idx' = idx + 1
    /\ UNCHANGED <<fields, oneBased, data, msg, pre, pc, err, arg, ret>>

ParseFieldErrorMutContinue ==
    /\ InLoop
    /\ Turn.kind = "Error"
    /\ dec' = [dec EXCEPT ![idx] = Turn]
    /\ err' = IF err = NoErr THEN FieldError(fields[idx], Turn.err) ELSE err
    /\ idx' = idx + 1
    /\ pc' = IF idx = Len(fields) THEN "done" ELSE pc
    /\ UNCHANGED <<fields, oneBased, data, msg, pre, arg, ret>>

ParseFieldErrorMutRollback ==
    /\ InLoop
    /\ Turn.kind = "Error"
    /\ dec' = [dec EXCEPT ![idx] = Turn]
    /\ err' = FieldError(fields[idx], Turn.err)
    /\ msg' = pre
    /\ pc' = "done"
    /\ UNCHANGED <<fields, oneBased, data, pre, idx, arg, ret>>

\* err != nil: return the wrapped error
ParseFieldError ==
    /\ InLoop
    /\ Turn.kind = "Error"
    /\ dec' = [dec EXCEPT ![idx] = Turn]
    /\ err' = FieldError(fields[idx], Turn.err)
    /\ pc' = "done"
    /\ UNCHANGED <<fields, oneBased, data, msg, pre, idx, arg, ret>>

\* a runtime panic unwinds ParseMessage
ParseFieldPanic ==
    /\ InLoop
    /\ Turn.kind = "Panic"
    /\ dec' = [dec EXCEPT ![idx] = Turn]
    /\ pc' = "panicked"
    /\ UNCHANGED <<fields, oneBased, data, msg, pre, idx, err, arg, ret>>

\* the loop is over: return nil
ParseReturn ==
    /\ pc = "pending"
    /\ idx > Len(fields)
    /\ pc' = "done"
    /\ UNCHANGED <<fields, oneBased, data, msg, pre, dec, idx, err, arg, ret>>

-----------------------------------------------------------------------------
(* Schemas and records of ParseMessage *)

\* bool flagged: true "X", false " ", MISSING_IS_ERROR
fdFlagged ==
    FieldDesc(0, "BoolKind", "", <<>>,
              Field(FixedWidth(1, 1), BoolField(<< <<88>> >>, << <<32>> >>, "MISSING_IS_ERROR"),
                    NoNumber, NoString))

\* bool with no bool config, declared at offset 0
fdBoolDefault ==
    FieldDesc(0, "BoolKind", "", <<>>, Field(FixedWidth(0, 1), NoBool, NoNumber, NoString))

\* enum RecordType { UNSPECIFIED = 0; FOO = 1 [key "F"]; BAR = 2 [key "B"] }
RecordTypeValues == <<EnumValueNoExt(0), EnumValue(1, <<70>>), EnumValue(2, <<66>>)>>
fdRecordType ==
    FieldDesc(0, "EnumKind", "", RecordTypeValues,
              Field(FixedWidth(1, 1), NoBool, NoNumber, NoString))

fdStr ==
    FieldDesc(0, "StringKind", "", <<>>,
              Field(FixedWidth(1, 2), NoBool, NoNumber, StringField("TRIM_BOTH", <<>>)))

fdNote ==
    FieldDesc(0, "MessageKind", "google.protobuf.StringValue", <<>>,
              Field(FixedWidth(2, 1), NoBool, NoNumber, StringField("TRIM_BOTH", <<>>)))

\* a field without the field option, and one whose option has no fixed_width
fdNoOption == FieldDesc(0, "StringKind", "", <<>>, NoField)
fdNoFixedWidth ==
    FieldDesc(0, "BoolKind", "", <<>>, Field(NoFixedWidth, NoBool, NoNumber, NoString))

\* a kind ReadField does not know
fdFloat ==
    FieldDesc(0, "FloatKind", "", <<>>, Field(FixedWidth(1, 1), NoBool, NoNumber, NoString))

FieldPool == {fdFlagged, fdBoolDefault, fdRecordType, fdStr, fdNote,
              fdNoOption, fdNoFixedWidth, fdFloat}

\* a message's fields: each field has its own name
Named(s) == [i \in DOMAIN s |-> [s[i] EXCEPT !.name = i]]
Schemas == {Named(s) : s \in SeqsOver(FieldPool, 1, MaxFields)}

\* "X1" "F " "Y " " X7"
RecordPool == {<<88, 49>>, <<70, 32>>, <<89, 32>>, <<32, 88, 55>>}

\* a value the field holds before the call, when the message is not fresh
OldValue(fd) ==
    CASE fd.kind = "BoolKind" -> ValueOfBool(TRUE)
      [] fd.kind = "EnumKind" -> ValueOfEnum(2)
      [] fd.kind = "StringKind" -> ValueOfString(<<111, 108, 100>>)
      [] fd.kind = "MessageKind" -> ValueOfStringValue(<<111, 108, 100>>)
      [] OTHER -> Unset

NoCall == <<>>
NoRet == [kind |-> "none", val |-> <<>>, err |-> NoErr]

Init ==
    /\ fields \in Schemas
    /\ oneBased \in BOOLEAN
    /\ data \in RecordPool
    /\ \E fresh \in BOOLEAN :
          pre = [i \in 1..Len(fields) |-> IF fresh THEN Unset ELSE OldValue(fields[i])]
    /\ msg = pre
    /\ dec = [i \in 1..Len(fields) |-> NotRead]
    /\ idx = 1
    /\ pc = "pending"
    /\ err = NoErr
    /\ arg = NoCall
    /\ ret = NoRet

Next ==
    \/ ParseFieldSet
    \/ ParseFieldSkip
    \/ ParseFieldError
    \/ ParseFieldPanic
    \/ ParseReturn

Spec == Init /\ [][Next]_vars

\* what ReadField returns for field i of the schema on this record
Decoded(i) == ReadField(NewReader(data, oneBased), fields[i])

\* the fields whose ReadField fails, and the lowest-indexed of them
Failing == {i \in 1..Len(fields) : Decoded(i).kind = "Error"}
FirstFailing == CHOOSE i \in Failing : \A j \in Failing : i <= j

HasLayout(fd) == fd.tc.present /\ fd.tc.fixedWidth.present

Returned == pc = "done"

\* C1: ParseMessage reads the fields in declared order and stops at the first
\* field whose ReadField fails: a field is read only after every field before
\* it was read without error, and when an error is returned it is the error of
\* the lowest-indexed failing field wrapped under that field's name, and no
\* later field was decoded or written.
C1_StopsAtFirstError ==
    /\ \A i \in 1..Len(fields) :
          dec[i] # NotRead =>
             /\ dec[i] = Decoded(i)
             /\ \A j \in 1..(i - 1) : dec[j].kind \in {"Present", "Absent"}
    /\ (Returned /\ err # NoErr) =>
          /\ Failing # {}
          /\ Head(err) = [msg |-> "error reading field", of |-> fields[FirstFailing].name]
          /\ Tail(err) = Decoded(FirstFailing).err
          /\ idx = FirstFailing
          /\ \A j \in (FirstFailing + 1)..Len(fields) : dec[j] = NotRead /\ msg[j] = pre[j]

\* a call that failed at the second or a later field, with fields left after it
C1_Witness ==
    /\ Returned /\ err # NoErr
    /\ idx > 1 /\ idx < Len(fields)
    /\ \E j \in (idx + 1)..Len(fields) : Decoded(j).kind = "Present"

\* C2: when ParseMessage returns nil, every field that decoded Present holds
\* its decoded value and every other field (no layout metadata, or decoded
\* Absent) holds the value it had before the call; a field without layout
\* metadata is never an error.
C2_FrameOnSuccess ==
    /\ (Returned /\ err = NoErr) =>
          \A i \in 1..Len(fields) :
             msg[i] = IF Decoded(i).kind = "Present" THEN Decoded(i).val ELSE pre[i]
    /\ \A i \in 1..Len(fields) :
          (dec[i] # NotRead /\ ~HasLayout(fields[i])) => dec[i] = Absent /\ msg[i] = pre[i]

\* a successful call on a populated message with a Present field, an Absent
\* field with layout and a field without layout
C2_Witness ==
    /\ Returned /\ err = NoErr
    /\ \E i \in 1..Len(fields) : dec[i].kind = "Present" /\ msg[i] # pre[i]
    /\ \E i \in 1..Len(fields) :
          dec[i] = Absent /\ HasLayout(fields[i]) /\ msg[i] = pre[i] /\ pre[i] # Unset
    /\ \E i \in 1..Len(fields) : ~HasLayout(fields[i]) /\ pre[i] # Unset

\* C3, as claimed: when ParseMessage returns an error the output record holds
\* no value written by the call.
C3_NoPartialRecord == (Returned /\ err # NoErr) => msg = pre

\* C3, amended: when ParseMessage returns an error at field i, the fields
\* before i that decoded Present are left set to their decoded values, and
\* every other field holds the value it had before the call.
C3_PartialRecordOnError ==
    (Returned /\ err # NoErr) =>
       \A j \in 1..Len(fields) :
          msg[j] = IF j < idx /\ Decoded(j).kind = "Present" THEN Decoded(j).val ELSE pre[j]

\* a failed call that left an earlier field's decoded value on the record
C3_Witness ==
    /\ Returned /\ err # NoErr
    /\ \E j \in 1..(idx - 1) : dec[j].kind = "Present" /\ msg[j] = dec[j].val /\ msg[j] # pre[j]

-----------------------------------------------------------------------------
(* Direct calls of the Reader and of the exported transformers: one call    *)
(* per behaviour, on an input drawn by the specification's initial state.   *)

\* the variables of ParseMessage, at rest
NoParse == msg = <<>> /\ pre = <<>> /\ dec = <<>> /\ idx = 0 /\ err = NoErr

\* the variables of the Reader, at rest
NoReader == fields = <<>> /\ oneBased = FALSE /\ data = <<>>

\* a schema of one field
OneField(kind, message, values, tc) == <<FieldDesc(1, kind, message, values, tc)>>

\* r.getBytes(tc)
CallGetBytes ==
    /\ pc = "call"
    /\ ret' = getBytes(NewReader(data, oneBased), fields[1].tc)
    /\ pc' = "returned"
    /\ UNCHANGED <<fields, oneBased, data, msg, pre, dec, idx, err, arg>>

\* r.ReadField(fieldDesc)
CallReadField ==
    /\ pc = "call"
    /\ ret' = ReadField(NewReader(data, oneBased), fields[1])
    /\ pc' = "returned"
    /\ UNCHANGED <<fields, oneBased, data, msg, pre, dec, idx, err, arg>>

\* UnpackPacked(in)
CallUnpackPacked ==
    /\ pc = "call"
    /\ ret' = UnpackPacked(arg)
    /\ pc' = "returned"
    /\ UNCHANGED <<fields, oneBased, data, msg, pre, dec, idx, err, arg>>

\* DecodeOverpunch(in)
CallDecodeOverpunch ==
    /\ pc = "call"
    /\ ret' = DecodeOverpunch(arg)
    /\ pc' = "returned"
    /\ UNCHANGED <<fields, oneBased, data, msg, pre, dec, idx, err, arg>>

Called == pc = "returned"

\* the declared layout and the window's normalized offset of the one field
Layout == fields[1].tc.fixedWidth
NormOffset == IF oneBased THEN Layout.offset - 1 ELSE Layout.offset

-----------------------------------------------------------------------------
(* getBytes on every buffer over "A" "B" up to MaxRec bytes, every offset   *)
(* 0..MaxOff, every length 0..MaxWin and either base                        *)

InitGetBytes ==
    /\ data \in SeqsOver({65, 66}, 0, MaxRec)
    /\ oneBased \in BOOLEAN
    /\ \E o \in 0..MaxOff, l \in 0..MaxWin :
          fields = OneField("StringKind", "", <<>>,
                            Field(FixedWidth(o, l), NoBool, NoNumber, NoString))
    /\ pc = "call"
    /\ arg = NoCall
    /\ ret = NoRet
    /\ NoParse

SpecGetBytes == InitGetBytes /\ [][CallGetBytes]_vars

\* C4: when the normalized offset o is >= 0, getBytes returns exactly the
\* length bytes buffer[o : o+length] if o+length <= len(buffer) and the
\* "short record" error otherwise; a one-based layout (k+1, n) returns what
\* the zero-based layout (k, n) returns on the same buffer.
C4_ExactWindow ==
    (Called /\ NormOffset >= 0) =>
       /\ IF NormOffset + Layout.length <= Len(data)
          THEN /\ ret.kind = "ok"
               /\ Len(ret.val) = Layout.length
               /\ \A k \in 1..Layout.length : ret.val[k] = data[NormOffset + k]
          ELSE ret.kind = "err" /\ ret.err = NewError("short record", <<>>)
       /\ oneBased =>
             ret = getBytes(NewReader(data, FALSE),
                            [fields[1].tc EXCEPT !.fixedWidth.offset = Layout.offset - 1])

\* a one-based layout that returned a window of at least two bytes from
\* inside the buffer
C4_Witness ==
    /\ Called /\ oneBased /\ NormOffset >= 1
    /\ ret.kind = "ok" /\ Len(ret.val) >= 2
    /\ ret.val[1] # ret.val[2]
    /\ NormOffset + Layout.length < Len(data)

-----------------------------------------------------------------------------
(* UnpackPacked on every window of up to MaxWin bytes over PackedBytes      *)

\* 0x00 0x01 0x0C 0x0D 0x12 0x1A 0x1B 0x34 0x5C 0x5D 0xA0
PackedBytes == {0, 1, 12, 13, 18, 26, 27, 52, 92, 93, 160}

InitPacked ==
    /\ arg \in SeqsOver(PackedBytes, 0, MaxWin)
    /\ pc = "call"
    /\ ret = NoRet
    /\ NoReader
    /\ NoParse

SpecPacked == InitPacked /\ [][CallUnpackPacked]_vars

\* the digit positions of a window: every high nibble, and the low nibble of
\* a byte that is neither the first nor the last
DigitNibblesValid(in) ==
    \A k \in 1..Len(in) :
       /\ in[k] \div 16 < 10
       /\ (k # 1 /\ k # Len(in)) => in[k] % 16 < 10

\* the nibbles the claim has emitted for byte k
ClaimedNibbles(in, k) ==
    IF (k = 1 \/ k = Len(in)) /\ in[k] % 16 >= 10
    THEN <<in[k] \div 16>>
    ELSE <<in[k] \div 16, in[k] % 16>>

RECURSIVE ClaimedEmitted(_, _)
ClaimedEmitted(in, n) ==
    IF n = 0 THEN <<>> ELSE ClaimedEmitted(in, n - 1) \o ClaimedNibbles(in, n)

\* leading zeros stripped, at least one digit kept; then the digit characters
ClaimedPacked(in) ==
    LET all == ClaimedEmitted(in, Len(in))
        nz == {k \in 1..Len(all) : all[k] # 0}
        from == IF nz = {} THEN Len(all) ELSE CHOOSE k \in nz : \A j \in nz : k <= j
        kept == SubSeq(all, from, Len(all))
        sign == IF in[Len(in)] % 16 \in {11, 13} THEN <<45>> ELSE <<>>
    IN  sign \o [k \in 1..Len(kept) |-> 48 + kept[k]]

\* C5: for a non-empty window whose digit nibbles are all 0-9, UnpackPacked
\* returns the emitted nibbles with leading zeros stripped but at least one
\* digit kept, prefixed with '-' exactly when the last low nibble is 0xB or
\* 0xD; an all-zero window gives "0" or "-0".
C5_PackedDigits ==
    (Called /\ arg # <<>> /\ DigitNibblesValid(arg)) =>
       ret.kind = "ok" /\ ret.val = ClaimedPacked(arg)

-----------------------------------------------------------------------------
(* Binary-encoded integer fields: the window is the whole record            *)

IntKinds == {"Uint32Kind", "Uint64Kind", "Int32Kind", "Int64Kind"}

\* the value type and the byte width of an integer kind
IntType(kind) ==
    CASE kind = "Uint32Kind" -> "uint32"
      [] kind = "Uint64Kind" -> "uint64"
      [] kind = "Int32Kind" -> "int32"
      [] kind = "Int64Kind" -> "int64"
IntWidth(kind) == IF kind \in {"Uint32Kind", "Int32Kind"} THEN 4 ELSE 8
IsSigned(kind) == kind \in {"Int32Kind", "Int64Kind"}

\* 0x2a 0xff 0x7f 0x80 of the test, and 0x00 0x01 0x02
BinaryBytes == {0, 1, 2, 42, 127, 128, 255}

\* every window of up to MaxWin bytes, and windows of 4, 5, 8 and 9 bytes
BinaryRecords ==
    SeqsOver(BinaryBytes, 1, MaxWin)
    \cup {<<0, 0, 1, 2>>, <<1, 0, 0, 0>>, <<0, 0, 0, 4, 5>>,
          <<0, 0, 0, 0, 0, 0, 1, 2>>, <<0, 0, 0, 0, 0, 0, 0, 0, 7>>}

InitBinary ==
    /\ data \in BinaryRecords
    /\ oneBased = FALSE
    /\ \E kind \in IntKinds :
          fields = OneField(kind, "", <<>>,
                            Field(FixedWidth(0, Len(data)), NoBool,
                                  NumberField("ENCODING_BINARY"), NoString))
    /\ pc = "call"
    /\ arg = NoCall
    /\ ret = NoRet
    /\ NoParse

SpecBinary == InitBinary /\ [][CallReadField]_vars

\* the bytes of w read as one big-endian integer
RECURSIVE BigEndian(_)
BigEndian(w) ==
    IF w = <<>> THEN 0 ELSE 256 * BigEndian(SubSeq(w, 1, Len(w) - 1)) + w[Len(w)]

\* C6: a binary-encoded integer field whose window is no longer than the
\* type's width decodes to the window left-padded with zero bytes and read
\* as one integer; a longer window is an error.
C6_BinaryWholeWindow ==
    Called =>
       IF Len(data) <= IntWidth(fields[1].kind)
       THEN ret = Present(ValueOfInt(IntType(fields[1].kind), NumOfNat(BigEndian(data))))
       ELSE ret.kind = "Error"

-----------------------------------------------------------------------------
(* Enum fields: the window is the whole record                              *)

\* a second enum: a key padded with spaces, a key declared twice
PaddedValues == <<EnumValueNoExt(0), EnumValue(1, <<32, 66>>), EnumValue(2, <<70, 32>>),
                  EnumValue(3, <<70>>)>>

\* "F" "B" " " "Q"
EnumBytes == {70, 66, 32, 81}

InitEnum ==
    /\ data \in SeqsOver(EnumBytes, 1, MaxWin)
    /\ oneBased = FALSE
    /\ \E values \in {RecordTypeValues, PaddedValues} :
          fields = OneField("EnumKind", "", values,
                            Field(FixedWidth(0, Len(data)), NoBool, NoNumber, NoString))
    /\ pc = "call"
    /\ arg = NoCall
    /\ ret = NoRet
    /\ NoParse

SpecEnum == InitEnum /\ [][CallReadField]_vars

\* s without its leading and trailing spaces
RECURSIVE Stripped(_)
Stripped(s) ==
    IF s = <<>> THEN s
    ELSE IF Head(s) = 32 THEN Stripped(Tail(s))
    ELSE IF s[Len(s)] = 32 THEN Stripped(SubSeq(s, 1, Len(s) - 1))
    ELSE s

\* C7: the enum decoder compares the trimmed window text with each value's
\* trimmed key in declared order and returns Present(first match); with no
\* match, an empty trimmed text is Absent and anything else is an "invalid
\* enum value" error; so for windows wider than the key.
C7_EnumTrimmedMatch ==
    Called =>
       LET values == fields[1].values
           text == Stripped(data)
           hits == {k \in 1..Len(values) : values[k].hasExt /\ Stripped(values[k].key) = text}
       IN  IF hits # {}
           THEN \E k \in hits : (\A j \in hits : k <= j) /\ ret = Present(ValueOfEnum(values[k].number))
           ELSE IF text = <<>> THEN ret = Absent
           ELSE ret.kind = "Error" /\ Head(ret.err).msg = "invalid enum value"

-----------------------------------------------------------------------------
(* Boolean fields: the window is the whole record                           *)

\* true "X" / false " " as in the tests; tokens that are in both lists; tokens
\* of two characters
BoolConfigs ==
    {BoolField(<< <<88>> >>, << <<32>> >>, m) :
        m \in {"MISSING_IS_UNSPECIFIED", "MISSING_IS_FALSE", "MISSING_IS_TRUE", "MISSING_IS_ERROR"}}
    \cup {BoolField(<< <<88>>, <<89>> >>, << <<89>>, <<32>> >>, "MISSING_IS_ERROR"),
          BoolField(<< <<88, 49>> >>, << <<78, 32>> >>, "MISSING_IS_TRUE"),
          NoBool}

\* "X" " " "Y" "N" "1" "#"
BoolBytes == {88, 32, 89, 78, 49, 35}

InitBool ==
    /\ data \in SeqsOver(BoolBytes, 1, MaxWin)
    /\ oneBased = FALSE
    /\ \E cfg \in BoolConfigs, wrapped \in BOOLEAN :
          fields = OneField(IF wrapped THEN "MessageKind" ELSE "BoolKind",
                            IF wrapped THEN "google.protobuf.BoolValue" ELSE "",
                            <<>>,
                            Field(FixedWidth(0, Len(data)), cfg, NoNumber, NoString))
    /\ pc = "call"
    /\ arg = NoCall
    /\ ret = NoRet
    /\ NoParse

SpecBool == InitBool /\ [][CallReadField]_vars

\* the tokens and the policy in force, T t Y y 1 / F f N n 0 / ERROR by default
TrueTokens ==
    IF fields[1].tc.bool.present
    THEN {fields[1].tc.bool.trueValues[k] : k \in DOMAIN fields[1].tc.bool.trueValues}
    ELSE {<<84>>, <<116>>, <<89>>, <<121>>, <<49>>}
FalseTokens ==
    IF fields[1].tc.bool.present
    THEN {fields[1].tc.bool.falseValues[k] : k \in DOMAIN fields[1].tc.bool.falseValues}
    ELSE {<<70>>, <<102>>, <<78>>, <<110>>, <<48>>}
MissingPolicy ==
    IF fields[1].tc.bool.present THEN fields[1].tc.bool.treatMissingAs ELSE "MISSING_IS_ERROR"

\* C8: the boolean decoder compares the raw window text with the tokens: a
\* true-token gives Present(true), otherwise a false-token gives
\* Present(false), otherwise the policy decides (FALSE -> Present(false),
\* TRUE -> Present(true), ERROR -> an error that is ErrMissingBool also after
\* ParseMessage wrapped it under the field's name); the result is never
\* Absent, and without bool config the default tokens and ERROR apply.
C8_BoolDecoder ==
    Called =>
       /\ ret.kind # "Absent"
       /\ IF data \in TrueTokens THEN ret = Present(ValueOfBool(TRUE))
          ELSE IF data \in FalseTokens THEN ret = Present(ValueOfBool(FALSE))
          ELSE /\ MissingPolicy = "MISSING_IS_FALSE" => ret = Present(ValueOfBool(FALSE))
               /\ MissingPolicy = "MISSING_IS_TRUE" => ret = Present(ValueOfBool(TRUE))
               /\ MissingPolicy = "MISSING_IS_ERROR" =>
                     /\ ret.kind = "Error"
                     /\ ErrorsIs(ret.err, ErrMissingBool)
                     /\ ErrorsIs(FieldError(fields[1], ret.err), ErrMissingBool)

\* a field without bool config whose window "X" is no default token: the
\* missing-bool error, still ErrMissingBool under ParseMessage's wrapping
C8_Witness ==
    /\ Called
    /\ ~fields[1].tc.bool.present
    /\ data = <<88>>
    /\ ret.kind = "Error"
    /\ Len(FieldError(fields[1], ret.err)) = 2
    /\ ErrorsIs(FieldError(fields[1], ret.err), ErrMissingBool)

-----------------------------------------------------------------------------
(* String-encoded integer fields: the window is the whole record            *)

\* " " "0" "1" "4" "-"
NumberBytes == {32, 48, 49, 52, 45}

\* the lines of the test, malformed text, and the limits of the four types:
\*   "0042" "-012" "1234" "0010" "    "
\*   "+5" "1x4" "-" "0 0 7" "2147483647"
\*   "2147483648" "-2147483648" "-2147483649" "4294967295" "4294967296"
\*   "9223372036854775807" "9223372036854775808" "-9223372036854775808" "-9223372036854775809" "18446744073709551615"
\*   "18446744073709551616"
NumberRecords ==
    {<<48, 48, 52, 50>>,
     <<45, 48, 49, 50>>,
     <<49, 50, 51, 52>>,
     <<48, 48, 49, 48>>,
     <<32, 32, 32, 32>>,
     <<43, 53>>,
     <<49, 120, 52>>,
     <<45>>,
     <<48, 32, 48, 32, 55>>,
     <<50, 49, 52, 55, 52, 56, 51, 54, 52, 55>>,
     <<50, 49, 52, 55, 52, 56, 51, 54, 52, 56>>,
     <<45, 50, 49, 52, 55, 52, 56, 51, 54, 52, 56>>,
     <<45, 50, 49, 52, 55, 52, 56, 51, 54, 52, 57>>,
     <<52, 50, 57, 52, 57, 54, 55, 50, 57, 53>>,
     <<52, 50, 57, 52, 57, 54, 55, 50, 57, 54>>,
     <<57, 50, 50, 51, 51, 55, 50, 48, 51, 54, 56, 53, 52, 55, 55, 53, 56, 48, 55>>,
     <<57, 50, 50, 51, 51, 55, 50, 48, 51, 54, 56, 53, 52, 55, 55, 53, 56, 48, 56>>,
     <<45, 57, 50, 50, 51, 51, 55, 50, 48, 51, 54, 56, 53, 52, 55, 55, 53, 56, 48, 56>>,
     <<45, 57, 50, 50, 51, 51, 55, 50, 48, 51, 54, 56, 53, 52, 55, 55, 53, 56, 48, 57>>,
     <<49, 56, 52, 52, 54, 55, 52, 52, 48, 55, 51, 55, 48, 57, 53, 53, 49, 54, 49, 53>>,
     <<49, 56, 52, 52, 54, 55, 52, 52, 48, 55, 51, 55, 48, 57, 53, 53, 49, 54, 49, 54>>}

InitNumber ==
    /\ data \in SeqsOver(NumberBytes, 1, MaxWin) \cup NumberRecords
    /\ oneBased = FALSE
    /\ \E kind \in IntKinds, number \in {NoNumber, NumberField("ENCODING_UNSPECIFIED")} :
          fields = OneField(kind, "", <<>>,
                            Field(FixedWidth(0, Len(data)), NoBool, number, NoString))
    /\ pc = "call"
    /\ arg = NoCall
    /\ ret = NoRet
    /\ NoParse

SpecNumber == InitNumber /\ [][CallReadField]_vars

\* s without its leading spaces and '0' characters
RECURSIVE DropLead(_)
DropLead(s) ==
    IF s # <<>> /\ Head(s) \in {32, 48} THEN DropLead(Tail(s)) ELSE s

\* the digits of s, as numbers, without leading zeros
RECURSIVE Magnitude(_)
Magnitude(s) ==
    IF Len(s) > 1 /\ Head(s) = 48 THEN Magnitude(Tail(s))
    ELSE [k \in 1..Len(s) |-> s[k] - 48]

\* a <= b, for digit sequences without leading zeros
NumLeq(a, b) ==
    \/ Len(a) < Len(b)
    \/ /\ Len(a) = Len(b)
       /\ \/ a = b
          \/ \E k \in 1..Len(a) : a[k] < b[k] /\ \A j \in 1..(k - 1) : a[j] = b[j]

\* the largest magnitude of a kind: 2^32-1, 2^64-1, 2^31-1 or 2^31, 2^63-1 or 2^63
Limit(kind, negative) ==
    CASE kind = "Uint32Kind" -> <<4,2,9,4,9,6,7,2,9,5>>
      [] kind = "Uint64Kind" -> <<1,8,4,4,6,7,4,4,0,7,3,7,0,9,5,5,1,6,1,5>>
      [] kind = "Int32Kind" /\ negative -> <<2,1,4,7,4,8,3,6,4,8>>
      [] kind = "Int32Kind" /\ ~negative -> <<2,1,4,7,4,8,3,6,4,7>>
      [] kind = "Int64Kind" /\ negative -> <<9,2,2,3,3,7,2,0,3,6,8,5,4,7,7,5,8,0,8>>
      [] kind = "Int64Kind" /\ ~negative -> <<9,2,2,3,3,7,2,0,3,6,8,5,4,7,7,5,8,0,7>>

\* C9: a non-binary integer field strips the leading spaces and '0'
\* characters off its numeric string; nothing left is Absent; otherwise the
\* rest is parsed as a base-10 integer of the declared signedness and width:
\* Present(value) when it fits, an error when it is malformed, out of range
\* or negative for an unsigned type.  "0042" is 42 and "-012" is -12.
C9_StringNumber ==
    Called =>
       LET kind == fields[1].kind
           rest == DropLead(Stripped(data))
           signed == IsSigned(kind) /\ Head(rest) \in {43, 45}
           negative == IsSigned(kind) /\ Head(rest) = 45
           body == IF signed THEN Tail(rest) ELSE rest
           wellFormed == body # <<>> /\ \A k \in 1..Len(body) : body[k] \in 48..57
           mag == Magnitude(body)
       IN  /\ IF rest = <<>> THEN ret = Absent
              ELSE IF wellFormed /\ NumLeq(mag, Limit(kind, negative))
              THEN ret = Present(ValueOfInt(IntType(kind),
                                            [neg |-> negative /\ mag # <<0>>, mag |-> mag]))
              ELSE ret.kind = "Error"
           /\ (data = <<48, 48, 52, 50>>) =>
                 ret = Present(ValueOfInt(IntType(kind), [neg |-> FALSE, mag |-> <<4, 2>>]))
           /\ (data = <<45, 48, 49, 50>> /\ IsSigned(kind)) =>
                 ret = Present(ValueOfInt(IntType(kind), [neg |-> TRUE, mag |-> <<1, 2>>]))
           /\ (data = <<45, 48, 49, 50>> /\ ~IsSigned(kind)) => ret.kind = "Error"

\* "2147483648" read as int32: stripped of nothing, well-formed, out of range
C9_Witness ==
    /\ Called
    /\ fields[1].kind = "Int32Kind"
    /\ data = <<50, 49, 52, 55, 52, 56, 51, 54, 52, 56>>
    /\ ret.kind = "Error"

-----------------------------------------------------------------------------
(* DecodeOverpunch on windows of up to MaxWin bytes                         *)

\* the last byte: the twenty overpunch characters, and "0" "S" "z"
OverpunchLast == {overpunchVals[k] : k \in 1..Len(overpunchVals)} \cup {48, 83, 122}

\* the bytes before it: "0" "1" "A"
OverpunchLead == {48, 49, 65}

InitOverpunch ==
    /\ arg \in {<<>>} \cup {lead \o <<last>> :
                               lead \in SeqsOver(OverpunchLead, 0, MaxWin - 1),
                               last \in OverpunchLast}
    /\ pc = "call"
    /\ ret = NoRet
    /\ NoReader
    /\ NoParse

SpecOverpunch == InitOverpunch /\ [][CallDecodeOverpunch]_vars

\* "{ABCDEFGHI}JKLMNOPQR", the sequence the claim names
ClaimedOverpunch == <<123, 65, 66, 67, 68, 69, 70, 71, 72, 73,
                      125, 74, 75, 76, 77, 78, 79, 80, 81, 82>>

\* C10: for a non-empty window DecodeOverpunch looks the final byte up in
\* "{ABCDEFGHI}JKLMNOPQR": absent, it fails with "invalid overpunch byte";
\* at index i, the result is the window with its last byte replaced by the
\* digit '0' + (i mod 10), prefixed with '-' exactly when i >= 10.  A final
\* 'A' is digit 1 non-negative, a final 'J' is digit 1 negative.
C10_Overpunch ==
    (Called /\ arg # <<>>) =>
       LET n == Len(arg)
           at == {i \in 0..19 : ClaimedOverpunch[i + 1] = arg[n]}
       IN  /\ IF at = {}
              THEN ret.kind = "err" /\ Head(ret.err).msg = "invalid overpunch byte"
              ELSE \E i \in at :
                      /\ ret.kind = "ok"
                      /\ ret.val = (IF i >= 10 THEN <<45>> ELSE <<>>)
                                   \o SubSeq(arg, 1, n - 1) \o <<48 + (i % 10)>>
           /\ arg[n] = 65 => ret.val = SubSeq(arg, 1, n - 1) \o <<49>>
           /\ arg[n] = 74 => ret.val = <<45>> \o SubSeq(arg, 1, n - 1) \o <<49>>

\* "1}" decodes to "-10": index 10, the first negative digit
C10_Witness ==
    /\ Called
    /\ arg = <<49, 125>>
    /\ ret = Ok(<<45, 49, 48>>)

-----------------------------------------------------------------------------
(* Totality of the byte window extraction, under SpecGetBytes               *)

\* C11: for every buffer, every non-negative declared offset, every length
\* and either base (a one-based record whose field declares offset 0
\* included), getBytes returns a slice of the buffer or the "short record"
\* error, and never slices the buffer out of range.
C11_GetBytesTotal ==
    Called =>
       \/ ret.kind = "err" /\ ret.err = NewError("short record", <<>>)
       \/ /\ ret.kind = "ok"
          /\ NormOffset >= 0
          /\ NormOffset + Layout.length <= Len(data)
          /\ ret.val = SubSeq(data, NormOffset + 1, NormOffset + Layout.length)

-----------------------------------------------------------------------------
(* The shape of UnpackPacked's result, under SpecPacked                     *)

\* s is an optional single leading '-' followed only by '0'..'9'
SignedDigitString(s) ==
    LET digits == IF s # <<>> /\ Head(s) = 45 THEN Tail(s) ELSE s
    IN  \A k \in 1..Len(digits) : digits[k] \in 48..57

\* C12: for every byte window, whenever UnpackPacked returns without error
\* its result is an optional single leading '-' followed only by '0'..'9',
\* also when a digit-position nibble of the window is 0xA-0xF: such a
\* window is rejected with an error or produces no non-digit character.
C12_PackedNormalized ==
    (Called /\ ret.kind = "ok") => SignedDigitString(ret.val)

====
